---- MODULE Spec2Model ----
(***************************************************************************)
(* Model of ichnaea/tasks.py: the background aggregation and archival      *)
(* tasks (station updaters, removers, LAC deriver, retention trimmer,      *)
(* archival planner, writer and reaper) acting on one shared database.     *)
(***************************************************************************)
EXTENDS Integers, Sequences, FiniteSets, TLC

(***************************************************************************)
(* Bounds of the model.                                                    *)
(***************************************************************************)
\* measurement rows ingested over a run of the archival tasks
MaxRows == 3
\* measurement rows ingested over a run of the station tasks, both kinds together
MaxStationRows == 2
\* measurement rows ingested over a run of the planner alone
MaxPlanRows == 5
\* largest archive_batch_size a planner run is configured with
MaxBatchSize == 2
\* largest max_measures a trimmer run is called with
MaxMaxMeasures == 2
\* largest new_measures a virtual LAC row is let to reach
MaxLacNew == 2
\* largest total_measures a backfill run is let to reach
MaxTotal == 3
\* most cell measurements ingested beside the trimmer
MaxTrimRows == 4
\* most cell measurements ingested beside the LAC deriver
MaxLacRows == 3
\* most cell measurements ingested beside the tracked writer and reaper
MaxWriterRows == 2

(***************************************************************************)
(* Program constants.                                                      *)
(***************************************************************************)
WIFI_MAX_DIST_KM == 5
CELL_MAX_DIST_KM == 150
CELLID_LAC == -2
\* Python's None in a nullable integer column
None == -1000000

Kinds == {"cell", "wifi"}
\* MEASURE_TYPE[kind]
MEASURE_TYPE(k) == IF k = "cell" THEN 1 ELSE 2
\* zip_prefix of write_cellmeasure_s3_backups / write_wifimeasure_s3_backups
ZipPrefix(k) == IF k = "cell" THEN "CellMeasure" ELSE "WifiMeasure"
\* the row of alembic_version
AlembicRev == "rev"
\* a column that holds no s3 key, hash or date
NoKey == <<>>
NoSha == <<>>

(***************************************************************************)
(* Helpers.                                                                *)
(***************************************************************************)
Min2(a, b) == IF a <= b THEN a ELSE b
Max2(a, b) == IF a >= b THEN a ELSE b
SetMin(S) == CHOOSE x \in S : \A y \in S : x <= y
SetMax(S) == CHOOSE x \in S : \A y \in S : x >= y

\* a table keyed by primary key: insert or replace one row, delete rows
Put(tab, key, row) == [x \in DOMAIN tab \cup {key} |-> IF x = key THEN row ELSE tab[x]]
Drop(tab, keys) == [x \in DOMAIN tab \ keys |-> tab[x]]

VARIABLES
  measures,    \* measures[k]: the rows of CellMeasure / WifiMeasure
  next_id,     \* next_id[k]: the auto-increment counter of that table
  station,     \* station[k]: the Cell / Wifi table, keyed by station key
  blacklist,   \* blacklist[k]: the keys of CellBlacklist / WifiBlacklist
  stat,        \* stat[k]: the deleted_cell / deleted_wifi statistic
  blocks,      \* the MeasureBlock table, in insertion (id) order
  store,       \* the object store: s3 key -> archive content
  plan,        \* plan[k]: position and locals of the planner run of kind k
  queue,       \* remover tasks enqueued with .delay() and not yet run
  reaped,      \* ids of the blocks whose rows some reaper run has deleted
  last,        \* the latest updater run: the stations it found moving and the
               \* remover tasks it enqueued
  inflight,    \* the update_lac and remove_cell runs between their reads
               \* and their commit, with what they have read
  seen,        \* seen[lac]: the sibling cells the latest completed update_lac
               \* of the area has read
  attempt,     \* the task delivered by the worker: its name, the retries so
               \* far and how the run ended
  wrun,        \* the latest writer run: the blocks it went through, those it
               \* counted into the metric, and the temporary files it left
  reaped_rows  \* the measurement rows reaper runs have deleted, with the
               \* block each was deleted for

\* the variables the storage and archival tasks never touch
aux == <<last, inflight, seen, attempt, wrun, reaped_rows>>
\* those of them the updaters never touch
beside == <<inflight, seen, attempt, wrun, reaped_rows>>
\* those of them only the archival tasks touch
archived == <<wrun, reaped_rows>>

vars == <<measures, next_id, station, blacklist, stat, blocks, store,
          plan, queue, reaped, last, inflight, seen, attempt, wrun, reaped_rows>>

(***************************************************************************)
(* Measurement rows.  `created` is the insertion instant, so it grows with *)
(* the id; `time` is the instant the client reports.                       *)
(***************************************************************************)
MeasureRow(id, key, time, lat, lon) ==
  [id |-> id, key |-> key, time |-> time, created |-> id, lat |-> lat, lon |-> lon]

Ids(k) == {r.id : r \in measures[k]}
TotalIngested == (next_id["cell"] - 1) + (next_id["wifi"] - 1)

\* no updater has run
NoRun == [moving |-> {}, sent |-> {}, task |-> <<"none">>, db |-> <<>>]
\* no writer has run
NoWrite == [kind |-> "none", order |-> <<>>, emitted |-> {}, left |-> {},
            cleanup_zip |-> TRUE, raised |-> FALSE]
\* no task delivered
NoAttempt == [task |-> "none", retries |-> 0, state |-> "idle"]
\* no update_lac has completed
NotSeen == [done |-> FALSE, cells |-> <<>>]
AuxInit ==
  /\ last = NoRun
  /\ inflight = {}
  /\ seen = [lac \in {1} |-> NotSeen]
  /\ attempt = NoAttempt
  /\ wrun = NoWrite
  /\ reaped_rows = {}

\* a planner run that is not started; result is what the last run returned
PlanIdle == [pc |-> "idle", batch_size |-> 0, min_id |-> 0, max_id |-> 0, result |-> <<>>]

Init ==
  /\ measures = [k \in Kinds |-> {}]
  /\ next_id = [k \in Kinds |-> 1]
  /\ station = [k \in Kinds |-> <<>>]
  /\ blacklist = [k \in Kinds |-> {}]
  /\ stat = [k \in Kinds |-> 0]
  /\ blocks = <<>>
  /\ store = <<>>
  /\ plan = [k \in Kinds |-> PlanIdle]
  /\ queue = {}
  /\ reaped = {}
  /\ AuxInit

(***************************************************************************)
(* Ingestion (external): appends one measurement row under the next id and *)
(* counts it into the station's new_measures and total_measures, creating  *)
(* the station on first sight.  Measurements of blacklisted keys are       *)
(* dropped.                                                                *)
(***************************************************************************)
NewStation ==
  [lat |-> 0, lon |-> 0, min_lat |-> None, min_lon |-> None,
   max_lat |-> None, max_lon |-> None, range |-> 0,
   new_measures |-> 0, total_measures |-> 0]

Counted(tab, key) ==
  LET s == IF key \in DOMAIN tab THEN tab[key] ELSE NewStation
  IN  Put(tab, key, [s EXCEPT !.new_measures = @ + 1, !.total_measures = @ + 1])

Ingest(k, key, time, lat, lon) ==
  /\ key \notin blacklist[k]
  /\ measures' = [measures EXCEPT ![k] = @ \cup {MeasureRow(next_id[k], key, time, lat, lon)}]
  /\ next_id' = [next_id EXCEPT ![k] = @ + 1]
  /\ station' = [station EXCEPT ![k] = Counted(@, key)]
  /\ UNCHANGED <<blacklist, stat, blocks, store, plan, queue, reaped, aux>>

(***************************************************************************)
(* Retention trimmer: trim_excessive_data.                                 *)
(***************************************************************************)
\* join_measure(u): the measurement rows of station u
join_measure(k, u) == {r \in measures[k] : r.key = u}
\* an age condition that every row meets
age_cond_Any(r, age_threshold) == TRUE

\* age_cond: measure_model.created < age_threshold
age_cond(r, age_threshold) == r.created < age_threshold
OldWindow(k, u, age_threshold) == {r \in join_measure(k, u) : age_cond(r, age_threshold)}
\* order_by(measure_model.time, measure_model.id)
TimeIdBefore(r, s) == r.time < s.time \/ (r.time = s.time /\ r.id < s.id)
\* .slice(start, count).first(): the row at offset start of the ordered window
SliceFirst(rows, start) ==
  CHOOSE r \in rows : Cardinality({s \in rows : TimeIdBefore(s, r)}) = start
\* the rows the delete statement of one kept station matches
TrimDeleted(k, u, age_threshold, max_measures) ==
  LET rows == OldWindow(k, u, age_threshold)
      keep == SliceFirst(rows, Cardinality(rows) - max_measures)
  IN  {r \in rows : r.time <= keep.time /\ r.id < keep.id}
\* the counters of a trimmed station, without the clamp of new_measures
TrimCounters_NoClamp(s, n) == [s EXCEPT !.total_measures = @ - n]

\* the counters of a trimmed station
TrimCounters(s, n) ==
  LET total == s.total_measures - n
  IN  [s EXCEPT !.total_measures = total,
                !.new_measures = IF s.new_measures > total THEN total ELSE s.new_measures]

trim_excessive_data(k, max_measures, age_threshold, uniques) ==
  LET counts == {u \in uniques :
                   Cardinality(OldWindow(k, u, age_threshold)) > max_measures}
      gone == UNION {TrimDeleted(k, u, age_threshold, max_measures) : u \in counts}
  IN
  /\ counts # {}
  /\ measures' = [measures EXCEPT ![k] = @ \ gone]
  /\ station' = [station EXCEPT ![k] =
       [u \in DOMAIN @ |->
          IF u \in counts
          THEN TrimCounters(@[u], Cardinality(TrimDeleted(k, u, age_threshold, max_measures)))
          ELSE @[u]]]
  /\ stat' = [stat EXCEPT ![k] = @ + Cardinality(gone)]
  /\ UNCHANGED <<next_id, blacklist, blocks, store, plan, queue, reaped, aux>>

\* wifi_trim_excessive_data / cell_trim_excessive_data
Trim(k, max_measures, age_threshold, batch) ==
  LET over == {u \in DOMAIN station[k] : station[k][u].total_measures > max_measures}
  IN  \E uniques \in SUBSET over :
        /\ Cardinality(uniques) = Min2(batch, Cardinality(over))
        /\ trim_excessive_data(k, max_measures, age_threshold, uniques)

(***************************************************************************)
(* Archival planner: schedule_measure_archival.  A run reads the last      *)
(* block (or the first row), then the last row, then writes its blocks;    *)
(* other tasks run between these database round trips.  Runs of one kind   *)
(* are serialized.                                                         *)
(***************************************************************************)
NewBlock(k, start_id, end_id) ==
  [measure_type |-> MEASURE_TYPE(k), start_id |-> start_id, end_id |-> end_id,
   s3_key |-> NoKey, archive_sha |-> NoSha, archive_date |-> None]

BlocksOf(k) == {i \in DOMAIN blocks : blocks[i].measure_type = MEASURE_TYPE(k)}

\* the while loop: the (start_id, end_id) pairs it appends to `blocks`
RECURSIVE schedule_loop(_, _, _, _, _)
schedule_loop(min_id, this_max_id, max_id, batch_size, acc) ==
  IF (this_max_id - min_id + 1) >= batch_size
  THEN LET acc2 == Append(acc, <<min_id, this_max_id>>)
           next_max == Min2(batch_size + this_max_id, max_id)
       IN  IF next_max > max_id
           THEN acc2
           ELSE schedule_loop(this_max_id + 1, next_max, max_id, batch_size, acc2)
  ELSE acc

\* the run without the check that a block can be filled
schedule_blocks_NoCheck(min_id, max_id, batch_size) ==
  schedule_loop(min_id, min_id + batch_size - 1, max_id, batch_size, <<>>)

\* the run with the tail made a block of its own
schedule_blocks_WithTail(min_id, max_id, batch_size) ==
  IF max_id - min_id + 1 < batch_size
  THEN <<>>
  ELSE LET full == schedule_loop(min_id, min_id + batch_size - 1, max_id, batch_size, <<>>)
           next == full[Len(full)][2] + 1
       IN  IF next <= max_id THEN Append(full, <<next, max_id>>) ELSE full

\* the pairs one run creates from the ids it read
schedule_blocks(min_id, max_id, batch_size) ==
  IF max_id - min_id + 1 < batch_size
  THEN <<>>
  ELSE schedule_loop(min_id, min_id + batch_size - 1, max_id, batch_size, <<>>)

\* the first query without the step past the last end_id
first_min_id_NoSucc(k) ==
  IF BlocksOf(k) # {}
  THEN SetMax({blocks[i].end_id : i \in BlocksOf(k)})
  ELSE SetMin(Ids(k))

\* the first query with the table read in descending order
first_min_id_Desc(k) ==
  IF BlocksOf(k) # {}
  THEN SetMax({blocks[i].end_id : i \in BlocksOf(k)}) + 1
  ELSE SetMax(Ids(k))

\* the first query: last end_id + 1, or the smallest id of the table
first_min_id(k) ==
  IF BlocksOf(k) # {}
  THEN SetMax({blocks[i].end_id : i \in BlocksOf(k)}) + 1
  ELSE SetMin(Ids(k))

\* lines 783-795; with no block and no row, record[0] raises and the run ends
PlanReadMin(k, batch_size) ==
  /\ plan[k].pc = "idle"
  /\ BlocksOf(k) # {} \/ Ids(k) # {}
  /\ plan' = [plan EXCEPT ![k] = [pc |-> "read_max", batch_size |-> batch_size,
                                  min_id |-> first_min_id(k), max_id |-> 0,
                                  result |-> <<>>]]
  /\ UNCHANGED <<measures, next_id, station, blacklist, stat, blocks, store,
                 queue, reaped, aux>>

\* lines 797-800; on an empty table record[0] raises and the run ends
PlanReadMax(k) ==
  /\ plan[k].pc = "read_max"
  /\ IF Ids(k) # {}
     THEN /\ plan' = [plan EXCEPT ![k].pc = "write", ![k].max_id = SetMax(Ids(k))]
     ELSE /\ plan' = [plan EXCEPT ![k] = PlanIdle]
  /\ UNCHANGED <<measures, next_id, station, blacklist, stat, blocks, store,
                 queue, reaped, aux>>

\* lines 802-821: add the blocks, commit, return the pairs
PlanWrite(k) ==
  /\ plan[k].pc = "write"
  /\ LET pairs == schedule_blocks(plan[k].min_id, plan[k].max_id, plan[k].batch_size)
     IN  /\ blocks' = blocks \o [i \in DOMAIN pairs |-> NewBlock(k, pairs[i][1], pairs[i][2])]
         /\ plan' = [plan EXCEPT ![k] = [PlanIdle EXCEPT !.result = pairs]]
  /\ UNCHANGED <<measures, next_id, station, blacklist, stat, store,
                 queue, reaped, aux>>

(***************************************************************************)
(* Archival writer: write_measure_s3_backups.                              *)
(***************************************************************************)
\* '%s/%s_%d_%d.zip' % (utcnow.strftime("%Y%m"), zip_prefix, start_id, end_id);
\* all runs fall into one calendar month
S3Key(k, b) == <<"YYYYMM", ZipPrefix(k), b.start_id, b.end_id>>
\* the zip: alembic_revision.txt and the csv of the rows of the block
ZipContent(k, b) ==
  <<AlembicRev, {r \in measures[k] : r.id >= b.start_id /\ r.id <= b.end_id}>>
\* ichnaea.backup.compute_hash: SHA1 of the zip, taken as collision free
compute_hash(zip) == <<"sha1", zip>>
\* S3Backend.check_archive: the store answers and the object at the key
\* hashes to the expected value
check_archive(expected_sha, s3_key, reachable) ==
  /\ reachable
  /\ s3_key \in DOMAIN store
  /\ compute_hash(store[s3_key]) = expected_sha
\* db_worker_session on leaving the with block: commits what is pending
SessionExit(committed, pending) == pending

\* query.order_by(MeasureBlock.end_id)
RECURSIVE OrderByEndId(_)
OrderByEndId(S) ==
  IF S = {} THEN <<>>
  ELSE LET i == CHOOSE i \in S : \A j \in S : blocks[i].end_id <= blocks[j].end_id
       IN  <<i>> \o OrderByEndId(S \ {i})

\* the blocks a writer run selects
WriterSelects(k) == {i \in BlocksOf(k) : blocks[i].archive_date = None}

\* the for loop: sess is the block table as the session sees it, db the
\* committed table, st the object store, uploaded the blocks whose
\* backup_archive call succeeds
RECURSIVE write_loop(_, _, _, _, _, _)
write_loop(k, todo, uploaded, sess, db, st) ==
  IF todo = <<>> THEN [sess |-> sess, db |-> db, store |-> st]
  ELSE LET i == Head(todo)
           s3_key == S3Key(k, sess[i])
           zip == ZipContent(k, sess[i])
           sess2 == [sess EXCEPT ![i].s3_key = s3_key,
                                 ![i].archive_sha = compute_hash(zip)]
       IN  IF i \in uploaded
           THEN write_loop(k, Tail(todo), uploaded, sess2, sess2, Put(st, s3_key, zip))
           ELSE write_loop(k, Tail(todo), uploaded, sess2, db, st)

WriteRun(k, uploaded) ==
  /\ WriterSelects(k) # {}
  /\ LET out == write_loop(k, OrderByEndId(WriterSelects(k)), uploaded, blocks, blocks, store)
     IN  /\ blocks' = SessionExit(out.db, out.sess)
         /\ store' = out.store
  /\ UNCHANGED <<measures, next_id, station, blacklist, stat, plan,
                 queue, reaped>>

\* write_cellmeasure_s3_backups / write_wifimeasure_s3_backups
Write(k, uploaded) == WriteRun(k, uploaded) /\ UNCHANGED aux

(***************************************************************************)
(* Archival reaper: delete_measure_records.                                *)
(***************************************************************************)
ReaperSelects(k) ==
  {i \in BlocksOf(k) : blocks[i].s3_key # NoKey /\ blocks[i].archive_date = None}

\* the delete statement without its filter
InBlock_Unfiltered(r, b) == TRUE

\* q.filter(measure_cls.id >= cmb.start_id, measure_cls.id <= cmb.end_id)
InBlock(r, b) == r.id >= b.start_id /\ r.id <= b.end_id

ReapRun(k, reachable) ==
  /\ ReaperSelects(k) # {}
  /\ LET ok == {i \in ReaperSelects(k) :
                  check_archive(blocks[i].archive_sha, blocks[i].s3_key, i \in reachable)}
     IN  /\ measures' = [measures EXCEPT ![k] =
                           {r \in @ : \A i \in ok : ~InBlock(r, blocks[i])}]
         /\ reaped' = reaped \cup ok
  /\ UNCHANGED <<next_id, station, blacklist, stat, blocks, store, plan, queue>>

\* delete_cellmeasure_records / delete_wifimeasure_records
Reap(k, reachable) == ReapRun(k, reachable) /\ UNCHANGED aux

(***************************************************************************)
(* The writer with its temporary files and its metric: what a run leaves   *)
(* on disk and which blocks it counts, beside what it writes to the block  *)
(* table and the object store.                                             *)
(***************************************************************************)
\* a directory or file made for block i
TempFile(i, what) == [block |-> i, what |-> what]

\* selfdestruct_tempdir: two directories are made, base_path and the one of
\* the zip; on leaving, the zip is written and base_path removed
selfdestruct_tempdir(i) ==
  ({TempFile(i, "base_path"), TempFile(i, "zip dir")} \cup {TempFile(i, "zip")})
    \ {TempFile(i, "base_path")}

\* the finally clause around the upload
after_upload(i, cleanup_zip) ==
  IF cleanup_zip THEN selfdestruct_tempdir(i) \ {TempFile(i, "zip")}
  ELSE selfdestruct_tempdir(i)

\* the metric emitted for every block, uploaded or not
emits_Always(i, uploaded) == {i}

\* heka_client.incr('s3.backup.%s', ...): reached when backup_archive
\* succeeded, passed over by continue when it failed
emits(i, uploaded) == IF i \in uploaded THEN {i} ELSE {}

\* the for loop as the disk and the metric see it; the body of the with
\* block raises at block failing, if that is one of todo
RECURSIVE write_trace(_, _, _, _, _)
write_trace(todo, uploaded, cleanup_zip, failing, run) ==
  IF todo = <<>> THEN run
  ELSE LET i == Head(todo)
       IN  IF i = failing
           THEN [run EXCEPT !.order = Append(@, i),
                            !.left = @ \cup selfdestruct_tempdir(i),
                            !.raised = TRUE]
           ELSE write_trace(Tail(todo), uploaded, cleanup_zip, failing,
                  [run EXCEPT !.order = Append(@, i),
                              !.emitted = @ \cup emits(i, uploaded),
                              !.left = @ \cup after_upload(i, cleanup_zip)])

\* a writer run that returns
TrackWrite(k, uploaded, cleanup_zip) ==
  /\ WriteRun(k, uploaded)
  /\ wrun' = write_trace(OrderByEndId(WriterSelects(k)), uploaded, cleanup_zip, 0,
                         [NoWrite EXCEPT !.kind = k, !.cleanup_zip = cleanup_zip])
  /\ UNCHANGED <<last, inflight, seen, attempt, reaped_rows>>

\* the blocks of order before block i
Before(order, i) ==
  SubSeq(order, 1, (CHOOSE n \in DOMAIN order : order[n] = i) - 1)

\* a writer run whose with block raises at block failing: the blocks before
\* it are written as in any run, the exception leaves the session without
\* a commit
TrackWriteRaises(k, uploaded, cleanup_zip, failing) ==
  /\ failing \in WriterSelects(k)
  /\ LET order == OrderByEndId(WriterSelects(k))
         out == write_loop(k, Before(order, failing), uploaded, blocks, blocks, store)
     IN  /\ blocks' = out.db
         /\ store' = out.store
         /\ wrun' = write_trace(order, uploaded, cleanup_zip, failing,
                                [NoWrite EXCEPT !.kind = k, !.cleanup_zip = cleanup_zip])
  /\ UNCHANGED <<measures, next_id, station, blacklist, stat, plan, queue, reaped,
                 last, inflight, seen, attempt, reaped_rows>>

\* a reaper run, with the rows it deletes recorded
TrackReap(k, reachable) ==
  /\ ReapRun(k, reachable)
  /\ reaped_rows' = reaped_rows \cup
       {g \in [kind : {k}, id : {r.id : r \in measures[k] \ measures'[k]},
                block : ReaperSelects(k)] :
          /\ g.id >= blocks[g.block].start_id /\ g.id <= blocks[g.block].end_id
          /\ check_archive(blocks[g.block].archive_sha, blocks[g.block].s3_key,
                           g.block \in reachable)}
  /\ UNCHANGED <<last, inflight, seen, attempt, wrun>>

(***************************************************************************)
(* Geo primitives (ichnaea.geocalc, ichnaea.models).  A stored coordinate  *)
(* is an integer number of grid steps; the model's grid step is one        *)
(* kilometre on a plane, so distances are Euclidean.                       *)
(***************************************************************************)
Abs(x) == IF x < 0 THEN -x ELSE x
\* square of distance(to_degrees(lat1), to_degrees(lon1), to_degrees(lat2), to_degrees(lon2))
distance_sq(lat1, lon1, lat2, lon2) ==
  (lat1 - lat2) * (lat1 - lat2) + (lon1 - lon2) * (lon1 - lon2)
\* range_to_points(ctr, points) * 1000: metres from ctr to the farthest point
range_to_points(lat, lon, points) ==
  LET far == CHOOSE p \in points : \A q \in points :
                distance_sq(lat, lon, p[1], p[2]) >= distance_sq(lat, lon, q[1], q[2])
      d2 == distance_sq(lat, lon, far[1], far[2])
      big == Abs(lat - far[1]) + Abs(lon - far[2])
  IN  (CHOOSE r \in 0..big : r * r <= d2 /\ d2 < (r + 1) * (r + 1)) * 1000

RECURSIVE SumOf(_, _)
\* sum of field f over a set of rows
SumOf(rows, f) ==
  IF rows = {} THEN 0
  ELSE LET r == CHOOSE r \in rows : TRUE IN r[f] + SumOf(rows \ {r}, f)

(***************************************************************************)
(* Position aggregator: calculate_new_position.  Returns the station as    *)
(* the call leaves it and whether it was added to moving_stations.         *)
(***************************************************************************)
\* extreme(vals, attr, function) for function = min, max
extreme_min(vals, old) == IF old # None THEN Min2(SetMin(vals), old) ELSE SetMin(vals)
extreme_max(vals, old) == IF old # None THEN Max2(SetMax(vals), old) ELSE SetMax(vals)

\* the weights without the batch taken off the total of a live update
weights_NoSubtract(total_measures, length, backfill) ==
  [new_total |-> IF backfill THEN total_measures + length ELSE total_measures,
   old_length |-> total_measures]

\* the weights of a backfill taken for a live update too
weights_AsBackfill(total_measures, length, backfill) ==
  [new_total |-> total_measures + length, old_length |-> total_measures]

\* new_total and old_length of the weighted mean: a backfill adds the batch
\* to the total, a live update finds it counted already
weights(total_measures, length, backfill) ==
  IF backfill
  THEN [new_total |-> total_measures + length, old_length |-> total_measures]
  ELSE [new_total |-> total_measures, old_length |-> total_measures - length]

calculate_new_position(s, ms, max_dist_km, backfill) ==
  LET length == Cardinality(ms)
      new_lat == SumOf(ms, "lat") \div length
      new_lon == SumOf(ms, "lon") \div length
      existing_station == s.lat # 0 /\ s.lon # 0
      latitudes == {r.lat : r \in ms} \cup (IF existing_station THEN {s.lat} ELSE {})
      longitudes == {r.lon : r \in ms} \cup (IF existing_station THEN {s.lon} ELSE {})
      s1 == IF existing_station THEN s ELSE [s EXCEPT !.lat = new_lat, !.lon = new_lon]
      min_lat == extreme_min(latitudes, s.min_lat)
      min_lon == extreme_min(longitudes, s.min_lon)
      max_lat == extreme_max(latitudes, s.max_lat)
      max_lon == extreme_max(longitudes, s.max_lon)
      box_dist_sq == distance_sq(min_lat, min_lon, max_lat, max_lon)
      new_total == weights(s1.total_measures, length, backfill).new_total
      old_length == weights(s1.total_measures, length, backfill).old_length
      s2 == IF existing_station
            THEN [s1 EXCEPT !.total_measures = IF backfill THEN new_total ELSE @,
                            !.lat = ((s1.lat * old_length) + (new_lat * length)) \div new_total,
                            !.lon = ((s1.lon * old_length) + (new_lon * length)) \div new_total]
            ELSE s1
      s3 == IF backfill THEN s2 ELSE [s2 EXCEPT !.new_measures = @ - length]
      s4 == [s3 EXCEPT !.min_lat = min_lat, !.min_lon = min_lon,
                       !.max_lat = max_lat, !.max_lon = max_lon]
      points == {<<min_lat, min_lon>>, <<min_lat, max_lon>>,
                 <<max_lat, min_lon>>, <<max_lat, max_lon>>}
  IN  IF existing_station /\ box_dist_sq > max_dist_km * max_dist_km
      THEN [station |-> s, moving |-> TRUE]
      ELSE [station |-> [s4 EXCEPT !.range = range_to_points(s4.lat, s4.lon, points)],
            moving |-> FALSE]

\* the division by new_total raises when the station has a prior estimate
\* and new_total is 0
position_raises(s, ms, backfill) ==
  /\ s.lat # 0 /\ s.lon # 0
  /\ (IF backfill THEN s.total_measures + Cardinality(ms) ELSE s.total_measures) = 0

(***************************************************************************)
(* update_enclosing_lac: insert the virtual LAC row of the cell's area, or *)
(* on duplicate key add one to its new_measures.                           *)
(***************************************************************************)
LacKey(key) == <<key[1], CELLID_LAC>>

update_enclosing_lac(tab, key, cell) ==
  IF LacKey(key) \in DOMAIN tab
  THEN [tab EXCEPT ![LacKey(key)].new_measures = @ + 1]
  ELSE Put(tab, LacKey(key),
           [NewStation EXCEPT !.lat = cell.lat, !.lon = cell.lon, !.range = cell.range,
                              !.new_measures = 1, !.total_measures = 0])

(***************************************************************************)
(* Station updaters.                                                       *)
(***************************************************************************)
\* the orders in which a query may return the rows S
Orders(S) == {o \in [1..Cardinality(S) -> S] : \A i, j \in DOMAIN o : o[i] = o[j] => i = j}
\* the subsets a query with .limit(batch) may return
Limit(S, batch) == {T \in SUBSET S : Cardinality(T) = Min2(batch, Cardinality(S))}
\* order_by(created.desc()).limit(n)
LastRows(rows, n) == {r \in rows : Cardinality({q \in rows : q.created > r.created}) < n}

\* the caps of the two kinds taken for each other
MaxDist_Swapped(k) == IF k = "cell" THEN WIFI_MAX_DIST_KM ELSE CELL_MAX_DIST_KM

MaxDist(k) == IF k = "cell" THEN CELL_MAX_DIST_KM ELSE WIFI_MAX_DIST_KM
Skipped(key) == key[1] = -1 \/ key[2] = -1 \/ key[2] = CELLID_LAC

\* the bounds on the counters that updater runs can raise without limit
CountersBounded(k, tab) ==
  \A key \in DOMAIN tab :
     /\ \/ tab[key].total_measures <= MaxTotal
        \/ key \in DOMAIN station[k] /\ tab[key].total_measures <= station[k][key].total_measures
     /\ (k = "cell" /\ key[2] = CELLID_LAC) => tab[key].new_measures <= MaxLacNew

\* the for loop of cell_location_update and wifi_location_update over the
\* selected stations: the table as the session sees it and the moving set
RECURSIVE update_loop(_, _, _, _)
update_loop(k, todo, tab, moving) ==
  IF todo = <<>> THEN [tab |-> tab, moving |-> moving]
  ELSE LET key == Head(todo)
           ms == LastRows(join_measure(k, key), tab[key].new_measures)
           res == calculate_new_position(tab[key], ms, MaxDist(k), FALSE)
           tab2 == Put(tab, key, res.station)
       IN  IF (k = "cell" /\ Skipped(key)) \/ ms = {}
           THEN update_loop(k, Tail(todo), tab, moving)
           ELSE update_loop(k, Tail(todo),
                            IF k = "cell" THEN update_enclosing_lac(tab2, key, res.station)
                                          ELSE tab2,
                            IF res.moving THEN moving \cup {key} ELSE moving)

\* some selected station makes calculate_new_position raise
update_raises(k, cells) ==
  \E key \in cells :
     /\ ~(k = "cell" /\ Skipped(key))
     /\ LET ms == LastRows(join_measure(k, key), station[k][key].new_measures)
        IN  ms # {} /\ position_raises(station[k][key], ms, FALSE)

\* mark_moving_cells: blacklist the keys not yet blacklisted, enqueue remove_cell
mark_moving_cells(bl, q, moving) ==
  LET moving_keys == moving \ bl
  IN  [blacklist |-> bl \cup moving_keys,
       queue |-> q \cup {[task |-> "remove_cell", arg |-> moving_keys]},
       sent |-> {[task |-> "remove_cell", arg |-> moving_keys]}]

\* mark_moving_wifis: as above, but returns early when every key is blacklisted
mark_moving_wifis(bl, q, moving) ==
  LET moving_keys == moving \ bl
  IN  IF moving_keys = {}
      THEN [blacklist |-> bl, queue |-> q, sent |-> {}]
      ELSE [blacklist |-> bl \cup moving_keys,
            queue |-> q \cup {[task |-> "remove_wifi", arg |-> moving_keys]},
            sent |-> {[task |-> "remove_wifi", arg |-> moving_keys]}]

mark_moving(k, bl, q, moving) ==
  IF moving = {} THEN [blacklist |-> bl, queue |-> q, sent |-> {}]
  ELSE IF k = "cell" THEN mark_moving_cells(bl, q, moving)
  ELSE mark_moving_wifis(bl, q, moving)

\* the stations a live updater run may select
UpdateSelects(k, min_new, max_new) ==
  {key \in DOMAIN station[k] :
     /\ station[k][key].new_measures >= min_new
     /\ station[k][key].new_measures < max_new
     /\ (k = "cell" => key[2] # CELLID_LAC)}

\* what a live updater run over the stations in order finds moving and
\* which remover tasks it enqueues
live_run(k, order) ==
  LET out == update_loop(k, order, station[k], {})
      mark == mark_moving(k, blacklist[k], queue, out.moving)
  IN  [moving |-> {<<k, key>> : key \in out.moving}, sent |-> mark.sent]

\* a run of cell_location_update / wifi_location_update that selects cells
\* and visits them in order
LocationUpdateRun(k, min_new, max_new, batch, cells, order) ==
  /\ cells \in Limit(UpdateSelects(k, min_new, max_new), batch)
  /\ order \in Orders(cells)
  /\ cells # {}
  /\ ~update_raises(k, cells)
  /\ LET out == update_loop(k, order, station[k], {})
         mark == mark_moving(k, blacklist[k], queue, out.moving)
     IN  /\ CountersBounded(k, out.tab)
         /\ station' = [station EXCEPT ![k] = out.tab]
         /\ blacklist' = [blacklist EXCEPT ![k] = mark.blacklist]
         /\ queue' = mark.queue
  /\ UNCHANGED <<measures, next_id, stat, blocks, store, plan, reaped>>

\* cell_location_update / wifi_location_update
LocationUpdate(k, min_new, max_new, batch) ==
  \E cells \in Limit(UpdateSelects(k, min_new, max_new), batch) :
  \E order \in Orders(cells) :
    LocationUpdateRun(k, min_new, max_new, batch, cells, order) /\ UNCHANGED aux

\* the for loop of backfill_cell_location_update over the towers of the map
RECURSIVE backfill_loop(_, _, _, _, _, _, _)
backfill_loop(todo, new_cell_measures, tab, bl, q, result, run) ==
  IF todo = <<>>
  THEN [tab |-> tab, blacklist |-> bl, queue |-> q, result |-> result, run |-> run]
  ELSE LET key == Head(todo)
           ms == {r \in measures["cell"] : r.id \in new_cell_measures[key]}
           res == calculate_new_position(tab[key], ms, CELL_MAX_DIST_KM, TRUE)
           tab2 == update_enclosing_lac(Put(tab, key, res.station), key, res.station)
           moving == IF res.moving THEN {key} ELSE {}
           mark == mark_moving("cell", bl, q, moving)
       IN  IF key \notin DOMAIN tab
           THEN backfill_loop(Tail(todo), new_cell_measures, tab, bl, q, <<0>>, run)
           ELSE IF ms = {}
           THEN backfill_loop(Tail(todo), new_cell_measures, tab, bl, q, <<1, 0>>, run)
           ELSE backfill_loop(Tail(todo), new_cell_measures, tab2, mark.blacklist,
                              mark.queue, <<1, Cardinality(moving)>>,
                              [moving |-> run.moving \cup {<<"cell", c>> : c \in moving},
                               sent |-> run.sent \cup mark.sent])

\* a run of backfill_cell_location_update(new_cell_measures) that visits the
\* towers in order
BackfillRun(new_cell_measures, order) ==
  /\ order \in Orders(DOMAIN new_cell_measures)
  /\ new_cell_measures # <<>>
  /\ LET out == backfill_loop(order, new_cell_measures, station["cell"],
                              blacklist["cell"], queue, <<>>, NoRun)
     IN  /\ CountersBounded("cell", out.tab)
         /\ station' = [station EXCEPT !["cell"] = out.tab]
         /\ blacklist' = [blacklist EXCEPT !["cell"] = out.blacklist]
         /\ queue' = out.queue
  /\ UNCHANGED <<measures, next_id, stat, blocks, store, plan, reaped>>

\* backfill_cell_location_update(new_cell_measures)
Backfill(new_cell_measures) ==
  \E order \in Orders(DOMAIN new_cell_measures) :
    BackfillRun(new_cell_measures, order) /\ UNCHANGED aux

(***************************************************************************)
(* Station removers, run from the task queue.                              *)
(***************************************************************************)
\* remove_wifi(wifi_keys)
RemoveWifi(t) ==
  /\ t \in queue /\ t.task = "remove_wifi"
  /\ queue' = queue \ {t}
  /\ station' = [station EXCEPT !["wifi"] = Drop(@, t.arg)]
  /\ UNCHANGED <<measures, next_id, blacklist, stat, blocks, store, plan, reaped, aux>>

\* one pass of the for loop of remove_cell: delete the cell, then delete the
\* virtual LAC row when no sibling is left, else set its new_measures to 1
remove_one_cell(tab, key) ==
  LET tab2 == Drop(tab, {key})
      n == Cardinality({c \in DOMAIN tab2 : c[1] = key[1] /\ c[2] # CELLID_LAC})
  IN  IF LacKey(key) \notin DOMAIN tab2 THEN tab2
      ELSE IF n < 1 THEN Drop(tab2, {LacKey(key)})
      ELSE [tab2 EXCEPT ![LacKey(key)].new_measures = 1]

RECURSIVE remove_cells(_, _)
remove_cells(tab, keys) ==
  IF keys = {} THEN tab
  ELSE LET key == CHOOSE key \in keys : TRUE
       IN  remove_cells(remove_one_cell(tab, key), keys \ {key})

\* remove_cell(cell_keys)
RemoveCell(t) ==
  /\ t \in queue /\ t.task = "remove_cell"
  /\ queue' = queue \ {t}
  /\ station' = [station EXCEPT !["cell"] = remove_cells(@, t.arg)]
  /\ UNCHANGED <<measures, next_id, blacklist, stat, blocks, store, plan, reaped, aux>>

(***************************************************************************)
(* LAC deriver: scan_lacs and update_lac.                                  *)
(***************************************************************************)
\* scan_lacs(batch): enqueue update_lac for virtual rows with new_measures > 0
ScanLacs(batch) ==
  LET marked == {key \in DOMAIN station["cell"] :
                   key[2] = CELLID_LAC /\ station["cell"][key].new_measures > 0}
  IN  \E lacs \in Limit(marked, batch) :
        /\ lacs # {}
        /\ queue' = queue \cup {[task |-> "update_lac", arg |-> key[1]] : key \in lacs}
        /\ UNCHANGED <<measures, next_id, station, blacklist, stat, blocks, store,
                       plan, reaped, aux>>

\* ichnaea.models.from_degrees applied to the mean of n stored coordinates:
\* int() truncates towards zero
from_degrees_mean(sum, n) == IF sum >= 0 THEN sum \div n ELSE -((-sum) \div n)

\* the virtual row update_lac computes from the sibling cells
lac_values(tab, cells) ==
  LET sibs == {[key |-> c, lat |-> tab[c].lat, lon |-> tab[c].lon] : c \in cells}
      n == Cardinality(cells)
      ctr_lat == from_degrees_mean(SumOf(sibs, "lat"), n)
      ctr_lon == from_degrees_mean(SumOf(sibs, "lon"), n)
      min_lat == SetMin({tab[c].min_lat : c \in cells})
      min_lon == SetMin({tab[c].min_lon : c \in cells})
      max_lat == SetMax({tab[c].max_lat : c \in cells})
      max_lon == SetMax({tab[c].max_lon : c \in cells})
      bbox_points == {<<min_lat, min_lon>>, <<min_lat, max_lon>>,
                      <<max_lat, min_lon>>, <<max_lat, max_lon>>}
  IN  [lat |-> ctr_lat, lon |-> ctr_lon,
       range |-> range_to_points(ctr_lat, ctr_lon, bbox_points)]

\* update_lac(radio, mcc, mnc, lac).  min() of no cells and to_degrees(None)
\* raise; a virtual row that does not exist is built but never added to the
\* session
UpdateLac(t) ==
  /\ t \in queue /\ t.task = "update_lac"
  /\ queue' = queue \ {t}
  /\ LET tab == station["cell"]
         cells == {c \in DOMAIN tab : c[1] = t.arg /\ c[2] # CELLID_LAC}
         lac == <<t.arg, CELLID_LAC>>
         raises == cells = {} \/ \E c \in cells : tab[c].min_lat = None
     IN  IF raises \/ lac \notin DOMAIN tab
         THEN station' = station
         ELSE LET v == lac_values(tab, cells)
              IN  station' = [station EXCEPT !["cell"][lac] =
                      [@ EXCEPT !.new_measures = 0, !.lat = v.lat, !.lon = v.lon,
                                !.range = v.range]]
  /\ UNCHANGED <<measures, next_id, blacklist, stat, blocks, store, plan, reaped, aux>>

(***************************************************************************)
(* update_lac beside the other cell tasks: the run reads the sibling cells *)
(* in one step and writes the virtual row and commits in a later one.      *)
(***************************************************************************)
\* the non-virtual cells of area lac in the table
Siblings(tab, lac) == {c \in DOMAIN tab : c[1] = lac /\ c[2] # CELLID_LAC}

\* q.all() over the sibling cells
UpdateLacRead(t) ==
  /\ t \in queue /\ t.task = "update_lac"
  /\ \A r \in inflight : ~(r.task = "update_lac" /\ r.arg = t.arg)
  /\ queue' = queue \ {t}
  /\ inflight' = inflight \cup
       {[task |-> "update_lac", arg |-> t.arg,
         read |-> [c \in Siblings(station["cell"], t.arg) |-> station["cell"][c]]]}
  /\ UNCHANGED <<measures, next_id, station, blacklist, stat, blocks, store, plan,
                 reaped, last, seen, attempt, archived>>

\* the rest of update_lac: the values from the cells read, q.first() for the
\* virtual row, the assignments and the commit
UpdateLacWrite(r) ==
  /\ r \in inflight /\ r.task = "update_lac"
  /\ inflight' = inflight \ {r}
  /\ LET cells == DOMAIN r.read
         lac == <<r.arg, CELLID_LAC>>
         raises == cells = {} \/ \E c \in cells : r.read[c].min_lat = None
     IN  IF raises
         THEN UNCHANGED <<station, seen>>
         ELSE /\ seen' = [seen EXCEPT ![r.arg] = [done |-> TRUE, cells |-> r.read]]
              /\ IF lac \notin DOMAIN station["cell"]
                 THEN station' = station
                 ELSE LET v == lac_values(r.read, cells)
                      IN  station' = [station EXCEPT !["cell"][lac] =
                              [@ EXCEPT !.new_measures = 0, !.lat = v.lat,
                                        !.lon = v.lon, !.range = v.range]]
  /\ UNCHANGED <<measures, next_id, blacklist, stat, blocks, store, plan, queue,
                 reaped, last, attempt, archived>>

(***************************************************************************)
(* Inputs and specifications.                                              *)
(***************************************************************************)
CellKeys == {<<1, 1>>, <<1, 2>>}
WifiKeys == {<<1>>}
KeysOf(k) == IF k = "cell" THEN CellKeys ELSE WifiKeys
Positions == {<<10, 10>>, <<200, 10>>}
\* the maps a backfill run is fed: one tower, some rows of CellMeasure
BackfillMaps(keys) ==
  {[key \in {c} |-> ids] : c \in keys, ids \in SUBSET Ids("cell") \ {{}}}


\* the periodic tasks of kind k with the arguments the runs are given
DoTrim(k) == \E max_measures \in 1..MaxMaxMeasures, batch \in 1..2 :
               \E age_threshold \in 1..next_id[k] :
                 Trim(k, max_measures, age_threshold, batch)
DoPlanReadMin(k) == \E batch_size \in 1..MaxBatchSize : PlanReadMin(k, batch_size)
DoWrite(k) == \E uploaded \in SUBSET WriterSelects(k) : Write(k, uploaded)
DoReap(k) == \E reachable \in SUBSET ReaperSelects(k) : Reap(k, reachable)
DoLocationUpdate(k) == \E min_new \in 1..2, batch \in 1..2 :
                         LocationUpdate(k, min_new, min_new + 2, batch)
DoBackfill(keys) == \E m \in BackfillMaps(keys) : Backfill(m)
DoRemoveWifi == \E t \in queue : RemoveWifi(t)
DoRemoveCell == \E t \in queue : RemoveCell(t)
DoScanLacs == \E batch \in 1..2 : ScanLacs(batch)
DoUpdateLac == \E t \in queue : UpdateLac(t)

\* ingestion of measurements of one cell at any position
IngestCell ==
  /\ TotalIngested < MaxStationRows
  /\ \E p \in Positions : Ingest("cell", <<1, 1>>, 1, p[1], p[2])

\* the pipeline of the cell tasks: ingestion, trimmer, planner, writer, reaper,
\* updaters and remover
Next ==
  \/ IngestCell
  \/ DoTrim("cell")
  \/ DoPlanReadMin("cell")
  \/ PlanReadMax("cell")
  \/ PlanWrite("cell")
  \/ DoWrite("cell")
  \/ DoReap("cell")
  \/ DoLocationUpdate("cell")
  \/ DoBackfill({<<1, 1>>})
  \/ DoRemoveCell

Spec == Init /\ [][Next]_vars

\* the database after two wifi measurements were ingested and planned into
\* a block of two
InitArchive ==
  /\ measures = [k \in Kinds |->
       IF k = "wifi" THEN {MeasureRow(1, <<1>>, 1, 10, 10), MeasureRow(2, <<1>>, 1, 10, 10)}
       ELSE {}]
  /\ next_id = [k \in Kinds |-> IF k = "wifi" THEN 3 ELSE 1]
  /\ station = [k \in Kinds |->
       IF k = "wifi" THEN Counted(Counted(<<>>, <<1>>), <<1>>) ELSE <<>>]
  /\ blacklist = [k \in Kinds |-> {}]
  /\ stat = [k \in Kinds |-> 0]
  /\ blocks = <<NewBlock("wifi", 1, 2)>>
  /\ store = <<>>
  /\ plan = [k \in Kinds |-> PlanIdle]
  /\ queue = {}
  /\ reaped = {}
  /\ AuxInit

\* ingestion of measurements of one cell at one position
IngestOne ==
  /\ next_id["cell"] <= MaxRows
  /\ Ingest("cell", <<1, 1>>, 1, 10, 10)

\* the archival tasks of the cell measurements, with ingestion and trimming
NextArchive ==
  \/ IngestOne
  \/ DoTrim("cell")
  \/ DoPlanReadMin("cell")
  \/ PlanReadMax("cell")
  \/ PlanWrite("cell")
  \/ DoWrite("cell")
  \/ DoReap("cell")

SpecArchive == InitArchive /\ [][NextArchive]_vars

\* the planner, the writer and the reaper of the cell measurements, run one
\* at a time, beside ingestion
DoTrackWrite(k) ==
  \E uploaded \in SUBSET WriterSelects(k), cleanup_zip \in BOOLEAN :
    TrackWrite(k, uploaded, cleanup_zip)
DoTrackWriteRaises(k) ==
  \E failing \in WriterSelects(k), cleanup_zip \in BOOLEAN :
    \E uploaded \in SUBSET {i \in WriterSelects(k) : blocks[i].end_id < blocks[failing].end_id} :
      TrackWriteRaises(k, uploaded, cleanup_zip, failing)
DoTrackReap(k) == \E reachable \in SUBSET ReaperSelects(k) : TrackReap(k, reachable)

\* ingestion of up to MaxWriterRows measurements of one cell
IngestWriter ==
  /\ next_id["cell"] <= MaxWriterRows
  /\ Ingest("cell", <<1, 1>>, 1, 10, 10)

NextWriter ==
  \/ IngestWriter
  \/ DoPlanReadMin("cell") /\ plan["cell"].pc = "idle"
  \/ PlanReadMax("cell")
  \/ PlanWrite("cell")
  \/ DoTrackWrite("cell")
  \/ DoTrackWriteRaises("cell")
  \/ DoTrackReap("cell")

SpecWriter == Init /\ [][NextWriter]_vars

\* ingestion of up to MaxPlanRows measurements of one cell
IngestPlan ==
  /\ next_id["cell"] <= MaxPlanRows
  /\ Ingest("cell", <<1, 1>>, 1, 10, 10)

\* the planner beside ingestion
NextPlanner ==
  \/ IngestPlan
  \/ DoPlanReadMin("cell")
  \/ PlanReadMax("cell")
  \/ PlanWrite("cell")

SpecPlanner == Init /\ [][NextPlanner]_vars

\* ingestion of any station at any position
IngestAny ==
  /\ TotalIngested < MaxStationRows
  /\ \E k \in Kinds, p \in Positions :
       \E key \in KeysOf(k) : Ingest(k, key, 1, p[1], p[2])

\* the station tasks of both kinds, with ingestion and trimming
NextStation ==
  \/ IngestAny
  \/ \E k \in Kinds : DoTrim(k)
  \/ \E k \in Kinds : DoLocationUpdate(k)
  \/ DoBackfill(CellKeys)
  \/ DoRemoveWifi
  \/ DoRemoveCell
  \/ DoScanLacs
  \/ DoUpdateLac

SpecStation == Init /\ [][NextStation]_vars

\* the updater runs with their findings recorded in last
TrackLocationUpdateWith(k, min_new, max_new, batch) ==
  \E cells \in Limit(UpdateSelects(k, min_new, max_new), batch) :
  \E order \in Orders(cells) :
    /\ LocationUpdateRun(k, min_new, max_new, batch, cells, order)
    /\ last' = [moving |-> live_run(k, order).moving,
                sent |-> live_run(k, order).sent,
                task |-> <<"live", k, min_new, max_new, batch>>,
                db |-> <<station', measures', blacklist'>>]
    /\ UNCHANGED beside

TrackLocationUpdate(k) ==
  \E min_new \in 1..2, batch \in 1..2 :
    TrackLocationUpdateWith(k, min_new, min_new + 2, batch)

TrackBackfillWith(m) ==
  \E order \in Orders(DOMAIN m) :
    /\ BackfillRun(m, order)
    /\ LET run == backfill_loop(order, m, station["cell"], blacklist["cell"],
                                queue, <<>>, NoRun).run
       IN  last' = [moving |-> run.moving, sent |-> run.sent,
                    task |-> <<"backfill", m>>,
                    db |-> <<station', measures', blacklist'>>]
    /\ UNCHANGED beside

TrackBackfill(keys) == \E m \in BackfillMaps(keys) : TrackBackfillWith(m)

\* the updaters of both kinds with the removers they enqueue
NextMoving ==
  \/ IngestAny
  \/ \E k \in Kinds : TrackLocationUpdate(k)
  \/ TrackBackfill(CellKeys)
  \/ DoRemoveWifi
  \/ DoRemoveCell

SpecMoving == Init /\ [][NextMoving]_vars

\* a run of cell_location_update / wifi_location_update that is killed, or
\* whose commit fails, after mark_moving_cells / mark_moving_wifis returned:
\* the remover is enqueued, the session commits nothing
LocationUpdateKilled(k, min_new, max_new, batch, cells, order) ==
  /\ cells \in Limit(UpdateSelects(k, min_new, max_new), batch)
  /\ order \in Orders(cells)
  /\ cells # {}
  /\ ~update_raises(k, cells)
  /\ LET out == update_loop(k, order, station[k], {})
         mark == mark_moving(k, blacklist[k], queue, out.moving)
     IN  /\ CountersBounded(k, out.tab)
         /\ queue' = mark.queue
  /\ UNCHANGED <<measures, next_id, station, blacklist, stat, blocks, store, plan,
                 reaped>>
  /\ UNCHANGED aux

DoLocationUpdateKilled(k) ==
  \E min_new \in 1..2, batch \in 1..2 :
    \E cells \in Limit(UpdateSelects(k, min_new, min_new + 2), batch) :
      \E order \in Orders(cells) :
        LocationUpdateKilled(k, min_new, min_new + 2, batch, cells, order)

\* the updaters of both kinds with the removers they enqueue, a run of
\* either updater ending with or without its commit
NextKilled ==
  \/ NextMoving
  \/ \E k \in Kinds : DoLocationUpdateKilled(k)

SpecKilled == Init /\ [][NextKilled]_vars

\* ingestion of up to MaxTrimRows cell measurements, reported out of order
IngestTrim ==
  /\ next_id["cell"] <= MaxTrimRows
  /\ \E key \in CellKeys, time \in 1..2 : Ingest("cell", key, time, 10, 10)

\* the cell trimmer beside ingestion and the cell updater
NextTrim ==
  \/ IngestTrim
  \/ DoTrim("cell")
  \/ DoLocationUpdate("cell")

SpecTrim == Init /\ [][NextTrim]_vars

\* remove_cell beside the other cell tasks: the run counts the cells left in
\* each area in one step and deletes and commits in a later one
RemoveCellRead(t) ==
  /\ t \in queue /\ t.task = "remove_cell"
  /\ \A r \in inflight : ~(r.task = "remove_cell" /\ r.arg = t.arg)
  /\ queue' = queue \ {t}
  /\ inflight' = inflight \cup
       {[task |-> "remove_cell", arg |-> t.arg,
         read |-> {key[1] : key \in {key \in t.arg :
                     Siblings(station["cell"], key[1]) \ t.arg = {}}}]}
  /\ UNCHANGED <<measures, next_id, station, blacklist, stat, blocks, store, plan,
                 reaped, last, seen, attempt, archived>>

\* the deletes and the update of remove_cell as they meet the table at the
\* commit: the virtual row of an area counted empty is deleted, that of
\* any other area of the keys gets new_measures = 1
remove_cells_counted(tab, keys, emptied) ==
  LET tab2 == Drop(tab, keys)
      gone == {<<lac, CELLID_LAC>> : lac \in emptied}
      marked == {<<key[1], CELLID_LAC>> : key \in keys} \ gone
  IN  [x \in DOMAIN tab2 \ gone |->
         IF x \in marked THEN [tab2[x] EXCEPT !.new_measures = 1] ELSE tab2[x]]

RemoveCellCommit(r) ==
  /\ r \in inflight /\ r.task = "remove_cell"
  /\ inflight' = inflight \ {r}
  /\ station' = [station EXCEPT !["cell"] = remove_cells_counted(@, r.arg, r.read)]
  /\ UNCHANGED <<measures, next_id, blacklist, stat, blocks, store, plan, queue,
                 reaped, last, seen, attempt, archived>>

(***************************************************************************)
(* Failures: what the try/except of each task does with an exception that  *)
(* its body raises, and what self.retry does with the retry count.         *)
(***************************************************************************)
Tasks ==
  {"remove_wifi", "remove_cell", "backfill_cell_location_update",
   "cell_location_update", "wifi_location_update",
   "wifi_trim_excessive_data", "cell_trim_excessive_data",
   "scan_lacs", "update_lac",
   "write_cellmeasure_s3_backups", "write_wifimeasure_s3_backups",
   "schedule_cellmeasure_archival", "schedule_wifimeasure_archival",
   "delete_cellmeasure_records", "delete_wifimeasure_records"}

\* the tasks with `except IntegrityError: ... return 0`
SwallowsIntegrity ==
  {"remove_wifi", "remove_cell", "backfill_cell_location_update",
   "cell_location_update", "wifi_location_update"}

\* the tasks with `except Exception as exc: raise self.retry(exc=exc)`
RetriesOnException ==
  SwallowsIntegrity \cup {"wifi_trim_excessive_data", "cell_trim_excessive_data"}

\* DatabaseTask.max_retries
max_retries == 3

Faults == {"IntegrityError", "Exception"}

\* the first except clause of the task that matches the exception
on_exception(task, fault) ==
  IF fault = "IntegrityError" /\ task \in SwallowsIntegrity THEN "return 0"
  ELSE IF task \in RetriesOnException THEN "retry"
  ELSE "raise"

\* the worker delivers a task
Deliver(task) ==
  /\ attempt.state # "running"
  /\ attempt' = [task |-> task, retries |-> 0, state |-> "running"]
  /\ UNCHANGED <<measures, next_id, station, blacklist, stat, blocks, store, plan,
                 queue, reaped, last, inflight, seen, archived>>

\* the body of the task runs to its return
Return ==
  /\ attempt.state = "running"
  /\ attempt' = [attempt EXCEPT !.state = "returned"]
  /\ UNCHANGED <<measures, next_id, station, blacklist, stat, blocks, store, plan,
                 queue, reaped, last, inflight, seen, archived>>

\* the body of the task raises inside its session, which is left without a
\* commit: the handler returns 0, or self.retry has the task delivered again
\* unless max_retries is used up, or the exception leaves the task
Raise(fault) ==
  /\ attempt.state = "running"
  /\ LET h == on_exception(attempt.task, fault)
     IN  attempt' =
           IF h = "return 0" THEN [attempt EXCEPT !.state = "returned 0"]
           ELSE IF h = "retry" /\ attempt.retries < max_retries
                THEN [attempt EXCEPT !.retries = @ + 1]
           ELSE [attempt EXCEPT !.state = "raised"]
  /\ UNCHANGED <<measures, next_id, station, blacklist, stat, blocks, store, plan,
                 queue, reaped, last, inflight, seen, archived>>

NextFailure ==
  \/ \E task \in Tasks : Deliver(task)
  \/ Return
  \/ \E fault \in Faults : Raise(fault)

SpecFailure == Init /\ [][NextFailure]_vars

\* ingestion of up to MaxLacRows cell measurements of one area
IngestLac ==
  /\ next_id["cell"] <= MaxLacRows
  /\ \E key \in CellKeys, p \in Positions : Ingest("cell", key, 1, p[1], p[2])

\* the cell tasks of one area running beside each other
NextLac ==
  \/ IngestLac
  \/ LocationUpdate("cell", 1, 3, 2)
  \/ \E t \in queue : RemoveCellRead(t)
  \/ \E r \in inflight : RemoveCellCommit(r)
  \/ ScanLacs(1)
  \/ \E t \in queue : UpdateLacRead(t)
  \/ \E r \in inflight : UpdateLacWrite(r)

SpecLac == Init /\ [][NextLac]_vars

(***************************************************************************)
(* The position aggregator on its own: one station of either kind in any   *)
(* state an earlier update can have left it in, and a batch of one or two  *)
(* measurements, or the station of the refinement example with its ten     *)
(* pending measurements.                                                   *)
(***************************************************************************)
PosLats == {-7, 0, 2, 200}
PosLons == {-3, 1}
PosKey(k) == IF k = "cell" THEN <<1, 1>> ELSE <<1>>

\* a station with a position estimate inside its bounding box
EstimatedStation(lat, lon, min_lat, max_lat, min_lon, max_lon, new, total) ==
  [lat |-> lat, lon |-> lon, min_lat |-> min_lat, min_lon |-> min_lon,
   max_lat |-> max_lat, max_lon |-> max_lon,
   range |-> range_to_points(lat, lon, {<<min_lat, min_lon>>, <<min_lat, max_lon>>,
                                        <<max_lat, min_lon>>, <<max_lat, max_lon>>}),
   new_measures |-> new, total_measures |-> total]

PosStations ==
  {EstimatedStation(g.lat, 1, g.min_lat, g.max_lat, -3, 1, g.new, g.total) :
     g \in {g \in [lat : PosLats, min_lat : PosLats, max_lat : PosLats,
                   new : 0..2, total : 1..2] :
              g.min_lat <= g.lat /\ g.lat <= g.max_lat /\ g.new <= g.total}}
  \cup {[NewStation EXCEPT !.new_measures = n, !.total_measures = n] : n \in 1..2}

\* the measurement rows of a batch of points, under the ids 1..Len(points)
BatchRows(k, points) ==
  {MeasureRow(i, PosKey(k), 1, points[i][1], points[i][2]) : i \in DOMAIN points}

PosBatches ==
  {<<p>> : p \in PosLats \X PosLons}
  \cup {<<<<a, 1>>, <<b, 1>>>> : a \in PosLats, b \in PosLats}

\* the example: total_measures = 90, new_measures = 10, ten pending
\* measurements at one latitude; coordinates in units of 10^-5 degrees
RefineLats == {5000000, -5000000}
RefineSteps == {100, -100, 7, -7}
RefineStation(lat) == EstimatedStation(lat, 1, lat, lat, 1, 1, 10, 90)
RefineBatch(lat) == [i \in 1..10 |-> <<lat, 1>>]

PosInit(k, s, points) ==
  /\ measures = [j \in Kinds |-> IF j = k THEN BatchRows(k, points) ELSE {}]
  /\ next_id = [j \in Kinds |-> IF j = k THEN Len(points) + 1 ELSE 1]
  /\ station = [j \in Kinds |-> IF j = k THEN Put(<<>>, PosKey(k), s) ELSE <<>>]
  /\ blacklist = [j \in Kinds |-> {}]
  /\ stat = [j \in Kinds |-> 0]
  /\ blocks = <<>>
  /\ store = <<>>
  /\ plan = [j \in Kinds |-> PlanIdle]
  /\ queue = {}
  /\ reaped = {}
  /\ AuxInit

InitPosition ==
  \/ \E k \in Kinds, s \in PosStations, points \in PosBatches : PosInit(k, s, points)
  \/ \E lat \in RefineLats, step \in RefineSteps :
       PosInit("cell", RefineStation(lat), RefineBatch(lat + step))

\* cell_location_update() with the default arguments
DefaultLocationUpdate == TrackLocationUpdateWith("cell", 10, 100, 10)

NextPosition ==
  \/ \E k \in Kinds : TrackLocationUpdate(k)
  \/ DefaultLocationUpdate
  \/ TrackBackfill({<<1, 1>>})

SpecPosition == InitPosition /\ [][NextPosition]_vars

(***************************************************************************)
(* Station counters.                                                       *)
(***************************************************************************)
Virtual(k, key) == k = "cell" /\ key[2] = CELLID_LAC
CountersOk(s) == 0 <= s.new_measures /\ s.new_measures <= s.total_measures

Removed(k) == measures[k] \ measures'[k]
Inserted(k) == measures'[k] \ measures[k]
\* block b is of kind k and its id range covers row r
Covers(k, b, r) ==
  b.measure_type = MEASURE_TYPE(k) /\ b.start_id <= r.id /\ r.id <= b.end_id
\* block b is uploaded and not archived, and the object at its key hashes to
\* its archive_sha
HashMatches(b) ==
  /\ b.s3_key # NoKey
  /\ b.archive_date = None
  /\ b.s3_key \in DOMAIN store
  /\ compute_hash(store[b.s3_key]) = b.archive_sha
\* row r lies in a block whose hash a reaper run has confirmed by the end of
\* the step
ReapedRow(k, r) ==
  \E i \in DOMAIN blocks : i \in reaped' /\ Covers(k, blocks[i], r) /\ HashMatches(blocks[i])

\* C2 as stated: a measurement row is removed only by the reaper, after the
\* object store confirmed the hash of the block that covers the row.
C2_OnlyReaperDeletes ==
  [][\A k \in Kinds : \A r \in Removed(k) : ReapedRow(k, r)]_vars

\* C2, amended: a measurement row is removed only by the reaper, after the
\* object store confirmed the hash of the block that covers the row, or by
\* the retention trimmer, which counts every row it deletes into the deletion
\* statistic; updater, remover, LAC, planner and writer delete no row.
C2_OnlyReaperOrTrimmerDeletes ==
  [][\A k \in Kinds :
       Removed(k) # {} =>
         \/ \A r \in Removed(k) : ReapedRow(k, r)
         \/ stat'[k] = stat[k] + Cardinality(Removed(k))]_vars

\* the trimmer has deleted rows and the reaper has emptied a confirmed block
C2_Witness ==
  /\ stat["cell"] > 0
  /\ reaped # {}
  /\ \E i \in reaped : \A r \in measures["cell"] : ~Covers("cell", blocks[i], r)

\* the blocks of kind k a reaper run confirms when the object store answers
\* for the blocks in reachable
Confirmed(k, reachable) ==
  {i \in BlocksOf(k) : i \in reachable /\ HashMatches(blocks[i])}

\* C3: a reaper run deletes a row only if it lies in a block of that kind
\* that is uploaded, not archived and confirmed in the run; a block that is
\* not confirmed keeps its row and the measurement rows of its range.
C3_ReaperDeletesConfirmedOnly ==
  [][\A k \in Kinds : \A reachable \in SUBSET DOMAIN blocks :
       Reap(k, reachable) =>
         /\ \A r \in Removed(k) :
              \E i \in Confirmed(k, reachable) : Covers(k, blocks[i], r)
         /\ \A j \in Kinds \ {k} : measures'[j] = measures[j]
         /\ \A i \in DOMAIN blocks \ Confirmed(k, reachable) :
              /\ blocks'[i] = blocks[i]
              /\ \A r \in measures[k] : Covers(k, blocks[i], r) => r \in measures'[k]]_vars

\* one uploaded block was confirmed and emptied, another uploaded block of
\* the kind was not and keeps its row
C3_Witness ==
  \E i, j \in BlocksOf("cell") :
     /\ i \in reaped /\ j \notin reaped
     /\ blocks[j].s3_key # NoKey
     /\ \A r \in measures["cell"] : ~Covers("cell", blocks[i], r)
     /\ \E r \in measures["cell"] : Covers("cell", blocks[j], r)

(***************************************************************************)
(* Archival state of a block.                                              *)
(***************************************************************************)
\* no measurement row of kind k lies in block b
Emptied(b) ==
  \A k \in Kinds : \A r \in measures[k] : ~Covers(k, b, r)
\* the object stored at the key of block b hashes to its archive_sha
ShaMatchesStore(b) ==
  b.s3_key \in DOMAIN store /\ compute_hash(store[b.s3_key]) = b.archive_sha

\* C4 as stated: a block whose hash the reaper confirmed has archive_date set
\* and no measurement row in its range after the run, and no measurement row
\* lies in a block whose archive_date is set.
C4_ReapedBlockIsDated ==
  \A i \in DOMAIN blocks :
     /\ i \in reaped => blocks[i].archive_date # None /\ Emptied(blocks[i])
     /\ blocks[i].archive_date # None => Emptied(blocks[i])

\* C5 as stated: once a block was uploaded and then reaped, its measurement
\* rows are gone and its archive_sha is the hash of the object stored at its
\* s3_key, also after further writer and reaper runs.
C5_RoundTrip ==
  \A i \in DOMAIN blocks :
     i \in reaped => Emptied(blocks[i]) /\ ShaMatchesStore(blocks[i])

\* C6 as stated: a writer run gives a key to every block of its kind that has
\* none, and a block whose key holds an uploaded object keeps its s3_key, its
\* archive_sha and its stored object in every later step.
C6_WriterSkipsUploaded ==
  [][/\ \A k \in Kinds : \A uploaded \in SUBSET DOMAIN blocks :
          Write(k, uploaded) =>
            \A i \in BlocksOf(k) : blocks[i].s3_key = NoKey => blocks'[i].s3_key # NoKey
     /\ \A i \in DOMAIN blocks :
          (blocks[i].s3_key # NoKey /\ blocks[i].s3_key \in DOMAIN store) =>
            /\ blocks'[i].s3_key = blocks[i].s3_key
            /\ blocks'[i].archive_sha = blocks[i].archive_sha
            /\ store'[blocks[i].s3_key] = store[blocks[i].s3_key]]_vars

(***************************************************************************)
(* Block boundaries.                                                       *)
(***************************************************************************)
\* the blocks of kind k in a value of the block table
BlocksIn(tab, k) == {i \in DOMAIN tab : tab[i].measure_type = MEASURE_TYPE(k)}
LastEndIn(tab, k) == SetMax({tab[i].end_id : i \in BlocksIn(tab, k)})
FirstStartIn(tab, k) == SetMin({tab[i].start_id : i \in BlocksIn(tab, k)})
\* the blocks of kind k, in the order of their creation, have ascending
\* ranges without overlap
Ascending(k) ==
  \A i, j \in BlocksOf(k) :
     /\ blocks[i].start_id <= blocks[i].end_id
     /\ i < j => blocks[i].end_id < blocks[j].start_id

\* C7: the blocks of one kind have strictly ascending ranges that do not
\* overlap, and the end_id of the last block of a kind never decreases.
C7_BlocksAscend ==
  /\ [](\A k \in Kinds : Ascending(k))
  /\ [][\A k \in Kinds :
          BlocksIn(blocks, k) # {} =>
            /\ BlocksIn(blocks', k) # {}
            /\ LastEndIn(blocks', k) >= LastEndIn(blocks, k)]_vars

\* two cell blocks made by two planner runs, around a trimmer run
C7_Witness ==
  /\ Cardinality(BlocksOf("cell")) >= 2
  /\ stat["cell"] > 0
  /\ \E i \in BlocksOf("cell") : i \in reaped

ExpectedPairs(min_id, max_id, batch_size) ==
  IF max_id - min_id + 1 < batch_size THEN <<>>
  ELSE [i \in 1..((max_id - min_id + 1) \div batch_size) |->
          <<min_id + (i - 1) * batch_size, min_id + i * batch_size - 1>>]

\* C9: a planner run creates no block when fewer than batch_size ids are
\* unassigned, else floor((max_id - min_id + 1) / batch_size) consecutive
\* blocks of batch_size ids from min_id on, none beyond max_id, leaving a
\* tail of fewer than batch_size ids, and returns their (start_id, end_id).
C9_PlannerBlocks ==
  [][\A k \in Kinds :
       (plan[k].pc = "write" /\ plan'[k].pc = "idle") =>
         LET e == ExpectedPairs(plan[k].min_id, plan[k].max_id, plan[k].batch_size)
             n == Len(blocks)
         IN  /\ plan'[k].result = e
             /\ Len(blocks') = n + Len(e)
             /\ \A i \in 1..n : blocks'[i] = blocks[i]
             /\ \A i \in 1..Len(e) :
                  /\ blocks'[n + i].measure_type = MEASURE_TYPE(k)
                  /\ blocks'[n + i].start_id = e[i][1]
                  /\ blocks'[n + i].end_id = e[i][2]
                  /\ blocks'[n + i].s3_key = NoKey
                  /\ e[i][2] - e[i][1] + 1 = plan[k].batch_size
                  /\ e[i][2] <= plan[k].max_id
             /\ plan[k].max_id - (plan[k].min_id + Len(e) * plan[k].batch_size) + 1
                  < plan[k].batch_size]_vars

\* ids 1..5 with batch_size 2: the run returns [1..2] and [3..4], 5 is left
C9_Witness ==
  /\ plan["cell"].pc = "idle"
  /\ plan["cell"].result = <<<<1, 2>>, <<3, 4>>>>
  /\ next_id["cell"] = 6
  /\ Len(blocks) = 2

\* C10: every block ends at or below the largest id the planner read, so it
\* ends below the next id to be given out; no row inserted later lies in a
\* block, and the boundaries of a block never change.
C10_BoundariesFixed ==
  /\ [](\A k \in Kinds : \A i \in BlocksOf(k) : blocks[i].end_id < next_id[k])
  /\ [][\A k \in Kinds :
          (plan[k].pc = "write" /\ plan'[k].pc = "idle") =>
            \A i \in BlocksIn(blocks', k) \ BlocksIn(blocks, k) :
               blocks'[i].end_id <= plan[k].max_id]_vars
  /\ [][\A k \in Kinds : \A r \in Inserted(k) : \A i \in DOMAIN blocks :
          ~Covers(k, blocks[i], r)]_vars
  /\ [][\A i \in DOMAIN blocks :
          /\ i \in DOMAIN blocks'
          /\ blocks'[i].measure_type = blocks[i].measure_type
          /\ blocks'[i].start_id = blocks[i].start_id
          /\ blocks'[i].end_id = blocks[i].end_id]_vars

\* a planner run is about to write while ingestion has added rows above the
\* largest id it read, beside a block of an earlier run
C10_Witness ==
  /\ plan["cell"].pc = "write"
  /\ plan["cell"].max_id < next_id["cell"] - 1
  /\ BlocksOf("cell") # {}

(***************************************************************************)
(* Removal of moving stations.                                             *)
(***************************************************************************)
\* the remover tasks the latest updater run enqueued have all executed
RemoversDone == last.sent \cap queue = {}

\* C11 as stated: once the remover tasks enqueued by an updater run have
\* executed, no station the run found moving has a row while its key is in
\* the blacklist, also when the key was blacklisted before the run.
C11_MovingStationsRemoved ==
  RemoversDone =>
    \A m \in last.moving :
       ~(m[2] \in DOMAIN station[m[1]] /\ m[2] \in blacklist[m[1]])

(***************************************************************************)
(* The position aggregator.                                                *)
(***************************************************************************)
InsideBox(s) ==
  /\ s.min_lat <= s.lat /\ s.lat <= s.max_lat
  /\ s.min_lon <= s.lon /\ s.lon <= s.max_lon
\* the station has a prior estimate: station.lat and station.lon are truthy
HasEstimate(s) == s.lat # 0 /\ s.lon # 0

\* C12: a position update that is not a moving one, of a station with
\* new_measures <= total_measures, leaves the station with its lat and lon
\* inside its bounding box, also for negative coordinates.
C12_PositionInsideBox ==
  [][\A k \in Kinds : \A key \in DOMAIN station[k] \cap DOMAIN station'[k] :
       (/\ ~Virtual(k, key)
        /\ station'[k][key] # station[k][key]
        /\ station[k][key].new_measures <= station[k][key].total_measures)
         => InsideBox(station'[k][key])]_vars

\* a fresh or known station was given measurements at -7 and 0: the mean -3.5
\* is floored to -4, inside the box
C12_Witness ==
  \E k \in Kinds : \E key \in DOMAIN station[k] :
     /\ station[k][key].lat = -4
     /\ station[k][key].min_lat = -7
     /\ station[k][key].max_lat >= 0
     /\ InsideBox(station[k][key])

\* the square of the diagonal of the bounding box of station s extended by
\* the batch ms and by the estimate of s
ExtDiagSq(s, ms) ==
  LET lats == {r.lat : r \in ms} \cup {s.lat}
              \cup (IF s.min_lat # None THEN {s.min_lat, s.max_lat} ELSE {})
      lons == {r.lon : r \in ms} \cup {s.lon}
              \cup (IF s.min_lon # None THEN {s.min_lon, s.max_lon} ELSE {})
      dlat == SetMax(lats) - SetMin(lats)
      dlon == SetMax(lons) - SetMin(lons)
  IN  dlat * dlat + dlon * dlon
\* station s of kind k has a prior estimate and batch ms takes its box over
\* the cap of the kind
TooFar(k, s, ms) ==
  /\ HasEstimate(s)
  /\ ms # {}
  /\ (IF k = "cell" THEN ExtDiagSq(s, ms) > 150 * 150 ELSE ExtDiagSq(s, ms) > 5 * 5)
\* the station under key of kind k is in the moving set of the run and keeps
\* every field, or it is not in the moving set
MovingIffTooFar(k, key, ms) ==
  IF TooFar(k, station[k][key], ms)
  THEN <<k, key>> \in last'.moving /\ station'[k][key] = station[k][key]
  ELSE <<k, key>> \notin last'.moving

RefinementStep(key, lat2) ==
  LET s == station["cell"][key]
      ms == join_measure("cell", key)
  IN  /\ DefaultLocationUpdate
      /\ s.total_measures = 90 /\ s.new_measures = 10
      /\ HasEstimate(s)
      /\ Cardinality(ms) = 10
      /\ \A r \in ms : r.lat = lat2
      /\ ~TooFar("cell", s, ms)

\* C14: a live cell update with the default arguments of a station with
\* total_measures = 90, new_measures = 10 and latitude L, whose ten pending
\* measurements are all at latitude L2, ends with lat = (L*90 + L2*10) // 100,
\* new_measures = 0 and total_measures = 90.
C14_WeightedRefinement ==
  [][\A key \in DOMAIN station["cell"] : \A lat2 \in {r.lat : r \in measures["cell"]} :
       RefinementStep(key, lat2)
         => /\ station'["cell"][key].lat
                 = (station["cell"][key].lat * 90 + lat2 * 10) \div 100
            /\ station'["cell"][key].new_measures = 0
            /\ station'["cell"][key].total_measures = 90]_vars

\* C14 as amended: the same update ends with lat = (L*80 + L2*10) // 90, the
\* ten measurements being part of the 90 already, new_measures = 0 and
\* total_measures = 90.
C14_WeightedRefinementAmended ==
  [][\A key \in DOMAIN station["cell"] : \A lat2 \in {r.lat : r \in measures["cell"]} :
       RefinementStep(key, lat2)
         => /\ station'["cell"][key].lat
                 = (station["cell"][key].lat * 80 + lat2 * 10) \div 90
            /\ station'["cell"][key].new_measures = 0
            /\ station'["cell"][key].total_measures = 90]_vars

\* the example in units of 10^-5 degrees: 50.0 refined by ten measurements
\* at 50.001 is 50.00011
C14_Witness ==
  \E key \in DOMAIN station["cell"] :
     /\ station["cell"][key].lat = 5000011
     /\ station["cell"][key].new_measures = 0
     /\ station["cell"][key].total_measures = 90
     /\ \A r \in join_measure("cell", key) : r.lat = 5000100

\* the columns of the station rows that a repeated run must leave alone
Estimates(tab) ==
  [key \in DOMAIN tab |->
     <<tab[key].lat, tab[key].lon, tab[key].min_lat, tab[key].max_lat,
       tab[key].min_lon, tab[key].max_lon,
       tab[key].new_measures, tab[key].total_measures>>]

\* the last step was a run of the task and the tables are as it left them
Committed(name) ==
  /\ last.task[1] = name
  /\ last.db = <<station, measures, blacklist>>

\* a second run of the live updater of kind k with the arguments of the run
\* before it
LiveRedelivery(k) ==
  /\ Committed("live") /\ last.task[2] = k
  /\ TrackLocationUpdateWith(k, last.task[3], last.task[4], last.task[5])

\* a second run of the backfill with the id map of the run before it
BackfillRedelivery ==
  /\ Committed("backfill")
  /\ TrackBackfillWith(last.task[2])

\* C15: a second run of an updater (live cell, live wifi, backfill with the
\* same id map) right after the first has committed leaves lat, lon, the
\* bounding box, new_measures and total_measures of every station as the
\* first run left them.
C15_RedeliveryIdempotent ==
  [][((\E k \in Kinds : LiveRedelivery(k)) \/ BackfillRedelivery)
       => \A k \in Kinds : Estimates(station'[k]) = Estimates(station[k])]_vars

\* the rows of kind k that a step deletes
Deleted(k) == measures[k] \ measures'[k]

\* C16: a trimmer run deletes no row with created >= now - min_age_days, and
\* no row of a station other than those with total_measures > max_measures
\* and more than max_measures rows older than that.
C16_TrimmerSparesYoungAndOthers ==
  [][\A max_measures \in 1..MaxMaxMeasures, batch \in 1..2 :
     \A age_threshold \in 1..(MaxTrimRows + 1) :
       Trim("cell", max_measures, age_threshold, batch)
         => \A r \in Deleted("cell") :
              /\ r.created < age_threshold
              /\ station["cell"][r.key].total_measures > max_measures
              /\ Cardinality({q \in measures["cell"] :
                                q.key = r.key /\ q.created < age_threshold})
                   > max_measures]_vars

\* one row of a cell was trimmed and a later row of it kept, while another
\* cell with two measurements kept both
C16_Witness ==
  /\ stat["cell"] = 1
  /\ next_id["cell"] = 5
  /\ \E u \in DOMAIN station["cell"], v \in DOMAIN station["cell"] :
       /\ u # v
       /\ Cardinality(join_measure("cell", u)) = 2
       /\ station["cell"][u].total_measures = 2
       /\ \E r \in join_measure("cell", v) : r.id > 1 /\ r.id \notin {q.id : q \in join_measure("cell", u)}
       /\ Cardinality(join_measure("cell", v)) = 1
       /\ station["cell"][v].total_measures = 1

PositionOf(s) == <<s.lat, s.lon, s.min_lat, s.min_lon, s.max_lat, s.max_lon>>

\* a sibling of the area was updated or removed after the latest completed
\* update_lac read the siblings
ChangedSinceSeen(lac) ==
  /\ seen[lac].done
  /\ \/ \E c \in DOMAIN seen[lac].cells :
          \/ c \notin DOMAIN station["cell"]
          \/ PositionOf(station["cell"][c]) # PositionOf(seen[lac].cells[c])
     \/ \E c \in Siblings(station["cell"], lac) \ DOMAIN seen[lac].cells :
          station["cell"][c].min_lat # None

\* C18: whenever a sibling cell was updated or removed after the sibling
\* data read by the latest completed update_lac, the virtual LAC row has
\* new_measures > 0.
C18_LacMarkKept ==
  \A lac \in DOMAIN seen :
     (ChangedSinceSeen(lac) /\ <<lac, CELLID_LAC>> \in DOMAIN station["cell"])
       => station["cell"][<<lac, CELLID_LAC>>].new_measures > 0

\* the update_lac run r does not raise: it has read at least one cell, each
\* with a bounding box
Completes(r) ==
  /\ r.task = "update_lac"
  /\ DOMAIN r.read # {}
  /\ \A c \in DOMAIN r.read : r.read[c].min_lat # None

\* C19: after update_lac completes for an area with at least one sibling
\* cell, the virtual row of the area exists with new_measures = 0 and with
\* lat, lon and range the centroid and range computed by the run, whether or
\* not the row existed before.
C19_LacRowUpserted ==
  [][\A r \in inflight :
       (/\ UpdateLacWrite(r)
        /\ Completes(r)
        /\ Siblings(station'["cell"], r.arg) # {})
         => /\ <<r.arg, CELLID_LAC>> \in DOMAIN station'["cell"]
            /\ LET row == station'["cell"][<<r.arg, CELLID_LAC>>]
                   v == lac_values(r.read, DOMAIN r.read)
               IN  /\ row.new_measures = 0
                   /\ row.lat = v.lat /\ row.lon = v.lon /\ row.range = v.range]_vars

\* C20: a task that hits an integrity conflict returns 0 and commits
\* nothing; on any other failure it is retried; no task is retried more
\* than 3 times.
C20_FailureHandling ==
  [][/\ Raise("IntegrityError")
          => /\ attempt'.state = "returned 0"
             /\ <<measures, station, blacklist, stat, blocks>>'
                  = <<measures, station, blacklist, stat, blocks>>
     /\ (Raise("Exception") /\ ~Raise("IntegrityError"))
          => \/ attempt'.state = "running" /\ attempt'.retries = attempt.retries + 1
             \/ attempt'.state = "raised" /\ attempt.retries = 3
     /\ attempt'.retries <= 3]_vars

\* C21: on every exit path of the writer's step for a block every temporary
\* directory made for the block is removed, and after a run with
\* cleanup_zip = true nothing the run made is left.
C21_TempFilesRemoved ==
  /\ \A f \in wrun.left : f.what \notin {"base_path", "zip dir"}
  /\ wrun.cleanup_zip => wrun.left = {}

\* C22: an updater run that is killed or fails before its commit leaves no
\* effect behind: no remover task is enqueued, no station and no blacklist
\* row is changed.
C22_KilledUpdaterLeavesNothing ==
  [][(\E k \in Kinds : DoLocationUpdateKilled(k)) =>
       /\ queue' = queue
       /\ station' = station
       /\ blacklist' = blacklist]_vars

\* the measurements a backfill run passes to calculate_new_position for key
BackfillMeasures(key) == {r \in measures["cell"] : r.id \in last'.task[2][key]}
\* the step is a backfill run that calls calculate_new_position for key and
\* does not find it moving
BackfillCall(key) ==
  /\ last'.task[1] = "backfill"
  /\ key \in DOMAIN last'.task[2]
  /\ key \in DOMAIN station["cell"]
  /\ BackfillMeasures(key) # {}
  /\ <<"cell", key>> \notin last'.moving

\* the measurements a live run passes to calculate_new_position for key
LiveMeasures(k, key) == LastRows(join_measure(k, key), station[k][key].new_measures)
\* the step is a live run of kind k that calls calculate_new_position for key
\* and does not find it moving
LiveCall(k, key) ==
  /\ last'.task[1] = "live"
  /\ last'.task[2] = k
  /\ key \in UpdateSelects(k, last'.task[3], last'.task[4])
  /\ Cardinality(UpdateSelects(k, last'.task[3], last'.task[4])) <= last'.task[5]
  /\ ~(k = "cell" /\ Skipped(key))
  /\ LiveMeasures(k, key) # {}
  /\ <<k, key>> \notin last'.moving

\* C23: a backfill call over n measurements that does not find the station
\* moving adds n to total_measures and leaves new_measures, with or without a
\* prior estimate; a live call leaves total_measures and takes n from
\* new_measures.
C23_CounterEffects ==
  [][\A k \in Kinds : \A key \in DOMAIN station[k] :
       /\ (k = "cell" /\ BackfillCall(key)) =>
            /\ station'[k][key].total_measures
                 = station[k][key].total_measures + Cardinality(BackfillMeasures(key))
            /\ station'[k][key].new_measures = station[k][key].new_measures
       /\ LiveCall(k, key) =>
            /\ station'[k][key].total_measures = station[k][key].total_measures
            /\ station'[k][key].new_measures
                 = station[k][key].new_measures - Cardinality(LiveMeasures(k, key))]_vars

\* the same for the stations with a prior estimate and for the live calls:
\* holds, so the divergence is that of the station without an estimate
C23_CounterEffectsOfEstimated ==
  [][\A k \in Kinds : \A key \in DOMAIN station[k] :
       /\ (k = "cell" /\ BackfillCall(key) /\ HasEstimate(station[k][key])) =>
            /\ station'[k][key].total_measures
                 = station[k][key].total_measures + Cardinality(BackfillMeasures(key))
            /\ station'[k][key].new_measures = station[k][key].new_measures
       /\ LiveCall(k, key) =>
            /\ station'[k][key].total_measures = station[k][key].total_measures
            /\ station'[k][key].new_measures
                 = station[k][key].new_measures - Cardinality(LiveMeasures(k, key))]_vars

\* exactly one of lat and lon of station s is 0
HalfZero(s) == (s.lat = 0 /\ s.lon # 0) \/ (s.lat # 0 /\ s.lon = 0)

\* the measurements the step's run passes to calculate_new_position for the
\* station under key of kind k, none if it does not call it
CalledWith(k, key) ==
  IF last'.task[1] = "backfill"
  THEN IF k = "cell" /\ key \in DOMAIN last'.task[2] THEN BackfillMeasures(key) ELSE {}
  ELSE IF /\ last'.task[1] = "live"
          /\ last'.task[2] = k
          /\ key \in UpdateSelects(k, last'.task[3], last'.task[4])
          /\ Cardinality(UpdateSelects(k, last'.task[3], last'.task[4])) <= last'.task[5]
          /\ ~(k = "cell" /\ Skipped(key))
       THEN LiveMeasures(k, key)
       ELSE {}

\* C24: a station with exactly one of lat and lon equal to 0 is treated as
\* one with a prior estimate: its position enters the extent, it is found
\* moving when the extent exceeds the cap, and otherwise its position becomes
\* the weighted mean of the stored position and the batch mean.
C24_HalfZeroIsExisting ==
  [][\A k \in Kinds : \A key \in DOMAIN station[k] :
       LET s == station[k][key]
           ms == CalledWith(k, key)
           n == Cardinality(ms)
           w == weights(s.total_measures, n, last'.task[1] = "backfill")
       IN  (HalfZero(s) /\ ms # {}) =>
             IF ExtDiagSq(s, ms) > MaxDist(k) * MaxDist(k)
             THEN <<k, key>> \in last'.moving
             ELSE /\ station'[k][key].lat
                       = (s.lat * w.old_length + (SumOf(ms, "lat") \div n) * n) \div w.new_total
                  /\ station'[k][key].lon
                       = (s.lon * w.old_length + (SumOf(ms, "lon") \div n) * n) \div w.new_total
                  /\ station'[k][key].min_lat <= s.lat /\ s.lat <= station'[k][key].max_lat
                  /\ station'[k][key].min_lon <= s.lon /\ s.lon <= station'[k][key].max_lon]_vars

\* the other half of C24, which holds: a station with lat = 0 and lon = 0 is
\* never found moving and gets the mean of the batch
C24_ZeroIsFresh ==
  [][\A k \in Kinds : \A key \in DOMAIN station[k] :
       LET s == station[k][key]
           ms == CalledWith(k, key)
       IN  (s.lat = 0 /\ s.lon = 0 /\ ms # {}) =>
             /\ <<k, key>> \notin last'.moving
             /\ station'[k][key].lat = SumOf(ms, "lat") \div Cardinality(ms)
             /\ station'[k][key].lon = SumOf(ms, "lon") \div Cardinality(ms)]_vars

\* the stations a trimmer run counts over max_measures when its batch takes
\* every station over the total
TrimKept(k, max_measures, age_threshold, batch) ==
  LET over == {u \in DOMAIN station[k] : station[k][u].total_measures > max_measures}
  IN  IF Cardinality(over) <= batch
      THEN {u \in over : Cardinality(OldWindow(k, u, age_threshold)) > max_measures}
      ELSE {}
\* the rows of the old window of u before the cutoff row in (time, id) order
BeforeCutoff(k, u, age_threshold, max_measures) ==
  LET rows == OldWindow(k, u, age_threshold)
      keep == SliceFirst(rows, Cardinality(rows) - max_measures)
  IN  {r \in rows : TimeIdBefore(r, keep)}
\* the times of the rows of u do not decrease with the ids
TimesAscend(k, u) ==
  \A r \in join_measure(k, u), q \in join_measure(k, u) : r.id < q.id => r.time <= q.time

\* C25: of every station it keeps, with count rows in the old window, a
\* trimmer run deletes the rows before the cutoff row and no other, count -
\* max_measures rows, and leaves max_measures rows of the old window,
\* whatever the times of the rows.
C25_TrimmerDeletesToCutoff ==
  [][\A max_measures \in 1..MaxMaxMeasures, batch \in 1..2 :
     \A age_threshold \in 1..(MaxTrimRows + 1) :
       Trim("cell", max_measures, age_threshold, batch)
         => \A u \in TrimKept("cell", max_measures, age_threshold, batch) :
              LET count == Cardinality(OldWindow("cell", u, age_threshold))
                  gone == {r \in Deleted("cell") : r.key = u}
              IN  /\ gone = BeforeCutoff("cell", u, age_threshold, max_measures)
                  /\ Cardinality(gone) = count - max_measures
                  /\ Cardinality(OldWindow("cell", u, age_threshold) \ gone)
                       = max_measures]_vars

\* the same for the stations whose times ascend with the ids: holds
C25_TrimmerDeletesToCutoffInOrder ==
  [][\A max_measures \in 1..MaxMaxMeasures, batch \in 1..2 :
     \A age_threshold \in 1..(MaxTrimRows + 1) :
       Trim("cell", max_measures, age_threshold, batch)
         => \A u \in TrimKept("cell", max_measures, age_threshold, batch) :
              LET count == Cardinality(OldWindow("cell", u, age_threshold))
                  gone == {r \in Deleted("cell") : r.key = u}
              IN  TimesAscend("cell", u) =>
                    /\ gone = BeforeCutoff("cell", u, age_threshold, max_measures)
                    /\ Cardinality(gone) = count - max_measures
                    /\ Cardinality(OldWindow("cell", u, age_threshold) \ gone)
                         = max_measures]_vars

\* C26: a writer run skips a block whose upload fails and nothing else: no
\* metric is emitted for it, nothing is stored under its key, its
\* archive_date stays null so that a later run selects it again, also when
\* a later block of the run is uploaded and committed; the run visits every
\* selected block in ascending end_id order, and every block whose upload
\* succeeds is stored and counted.
C26_FailedUploadSkipsBlockOnly ==
  [][\A uploaded \in SUBSET WriterSelects("cell"), cleanup_zip \in BOOLEAN :
       TrackWrite("cell", uploaded, cleanup_zip)
         => /\ wrun'.order = OrderByEndId(WriterSelects("cell"))
            /\ wrun'.emitted = uploaded
            /\ \A i \in WriterSelects("cell") \ uploaded :
                 /\ i \notin wrun'.emitted
                 /\ blocks'[i].archive_date = None
                 /\ blocks'[i].measure_type = blocks[i].measure_type
                 /\ \/ S3Key("cell", blocks[i]) \in {S3Key("cell", blocks[j]) : j \in uploaded}
                    \/ /\ S3Key("cell", blocks[i]) \in DOMAIN store'
                            <=> S3Key("cell", blocks[i]) \in DOMAIN store
                       /\ S3Key("cell", blocks[i]) \in DOMAIN store
                            => store'[S3Key("cell", blocks[i])] = store[S3Key("cell", blocks[i])]
            /\ \A j \in uploaded :
                 /\ S3Key("cell", blocks[j]) \in DOMAIN store'
                 /\ blocks'[j].s3_key = S3Key("cell", blocks[j])]_vars

\* a run over two blocks returned: the upload of the first failed, the second
\* was uploaded, counted and stored, the first is not stored and still has a
\* null archive_date
C26_Witness ==
  /\ wrun.kind = "cell"
  /\ ~wrun.raised
  /\ Len(wrun.order) >= 2
  /\ wrun.order[1] \notin wrun.emitted
  /\ wrun.order[2] \in wrun.emitted
  /\ blocks[wrun.order[1]].end_id < blocks[wrun.order[2]].end_id
  /\ blocks[wrun.order[1]].archive_date = None
  /\ blocks[wrun.order[1]].s3_key \notin DOMAIN store
  /\ blocks[wrun.order[2]].s3_key \in DOMAIN store

\* C27: every measurement row the reaper deleted is in the object stored
\* under the s3_key of its block, after any planner, writer and reaper runs
\* of one kind; no later writer run replaces the object by one without it.
C27_ArchiveComplete ==
  \A g \in reaped_rows :
     /\ blocks[g.block].s3_key \in DOMAIN store
     /\ g.id \in {r.id : r \in store[blocks[g.block].s3_key][2]}

\* the reaper deleted the row of a block whose stored object holds it
C27_ReapedRowStored ==
  \E g \in reaped_rows :
     /\ blocks[g.block].s3_key \in DOMAIN store
     /\ g.id \in {r.id : r \in store[blocks[g.block].s3_key][2]}
     /\ g.id \notin {r.id : r \in measures[g.kind]}

====
